---- MODULE Spec2Model ----
(***************************************************************************)
(* Model of the CSV ingestion pipeline of app.py: resolve_path,            *)
(* read_cw_csv, normalize_columns, parse_date_series, build_date,          *)
(* map_metric_columns and load_all.                                        *)
(*                                                                         *)
(* A text (a Python str) is a sequence of one-character strings; the byte  *)
(* order mark U+FEFF is the token "BOM".  A missing cell (pandas NaN) is    *)
(* the empty text.  An optional value (a date that may be NaT, a number    *)
(* that may be NaN) is a sequence of length 0 or 1.                        *)
(***************************************************************************)
EXTENDS Integers, Sequences, FiniteSets, TLC

\* ------------------------------------------------------------------ bounds

\* Longest file list handed to load_all.
MaxFiles == 2

\* Longest metric list handed to load_all (a prefix of METRICS_IN_ORDER).
MaxMetrics == 2

\* ------------------------------------------------------------- characters

UpperChars ==
    <<"A","B","C","D","E","F","G","H","I","J","K","L","M",
      "N","O","P","Q","R","S","T","U","V","W","X","Y","Z">>

LowerChars ==
    <<"a","b","c","d","e","f","g","h","i","j","k","l","m",
      "n","o","p","q","r","s","t","u","v","w","x","y","z">>

DigitChars == <<"0","1","2","3","4","5","6","7","8","9">>

Range(s) == {s[n] : n \in DOMAIN s}

UpperSet == Range(UpperChars)

LowerSet == Range(LowerChars)

DigitSet == Range(DigitChars)

IsUpper(c) == c \in UpperSet

IsLower(c) == c \in LowerSet

\* re.compile(r"[A-Za-z]")
IsAlpha(c) == IsUpper(c) \/ IsLower(c)

IsDigit(c) == c \in DigitSet

IndexOf(seq, c) == CHOOSE n \in DOMAIN seq : seq[n] = c

LowerChar(c) == IF IsUpper(c) THEN LowerChars[IndexOf(UpperChars, c)] ELSE c

UpperChar(c) == IF IsLower(c) THEN UpperChars[IndexOf(LowerChars, c)] ELSE c

DigitVal(c) == IndexOf(DigitChars, c) - 1

\* ------------------------------------------------------------------ texts

\* The whitespace str.strip() removes, among the characters of the model
\* (U+FEFF is not whitespace).
Whitespace == {" ", "\t"}

\* The sequence f as an explicit tuple (the same value, fully evaluated).
AsTuple(f) == f \o <<>>

\* str.lower()
Lower(s) == AsTuple([n \in DOMAIN s |-> LowerChar(s[n])])

\* str.upper()
Upper(s) == AsTuple([n \in DOMAIN s |-> UpperChar(s[n])])

RECURSIVE LStripWhile(_, _)
LStripWhile(s, chars) ==
    IF s # <<>> /\ Head(s) \in chars THEN LStripWhile(Tail(s), chars) ELSE s

RECURSIVE RStripWhile(_, _)
RStripWhile(s, chars) ==
    IF s # <<>> /\ s[Len(s)] \in chars
    THEN RStripWhile(SubSeq(s, 1, Len(s) - 1), chars)
    ELSE s

\* str.strip()
Strip(s) == RStripWhile(LStripWhile(s, Whitespace), Whitespace)

StartsWith(s, p) == Len(s) >= Len(p) /\ SubSeq(s, 1, Len(p)) = p

EndsWith(s, p) == Len(s) >= Len(p) /\ SubSeq(s, Len(s) - Len(p) + 1, Len(s)) = p

\* p in s (substring test)
Contains(s, p) ==
    \E n \in 1..(Len(s) - Len(p) + 1) : SubSeq(s, n, n + Len(p) - 1) = p

AllDigits(s) == s # <<>> /\ \A n \in DOMAIN s : IsDigit(s[n])

\* int(s) for a text of decimal digits.
RECURSIVE DigitsToInt(_)
DigitsToInt(s) ==
    IF s = <<>> THEN 0
    ELSE 10 * DigitsToInt(SubSeq(s, 1, Len(s) - 1)) + DigitVal(s[Len(s)])

\* str(n) for n >= 0.
RECURSIVE IntToDigits(_)
IntToDigits(n) ==
    IF n < 10 THEN <<DigitChars[n + 1]>>
    ELSE IntToDigits(n \div 10) \o <<DigitChars[(n % 10) + 1]>>

\* " ".join(texts)
RECURSIVE JoinSpace(_)
JoinSpace(texts) ==
    IF texts = <<>> THEN <<>>
    ELSE IF Len(texts) = 1 THEN texts[1]
    ELSE texts[1] \o <<" ">> \o JoinSpace(Tail(texts))

\* The entries of seq at the indices for which keep holds, in order.
RECURSIVE SelectIdx(_, _, _)
SelectIdx(seq, keep, n) ==
    IF n > Len(seq) THEN <<>>
    ELSE (IF keep[n] THEN <<seq[n]>> ELSE <<>>) \o SelectIdx(seq, keep, n + 1)

\* ----------------------------------------------------------- data frames

(***************************************************************************)
(* A data frame is [cols, dtypes, rows, Date]: the column labels, the      *)
(* dtype of each column ("int", "float" or "object" as read_csv infers it, *)
(* "str" once astype(str) has run), the rows, each a sequence of cell      *)
(* texts aligned with cols, and the Date column that line 179 adds, one    *)
(* entry per row (all NaT until then).                                     *)
(***************************************************************************)

\* The positions of the columns labelled `label`.
ColIdx(frame, label) == {j \in DOMAIN frame.cols : frame.cols[j] = label}

\* label in frame.columns
HasCol(frame, label) == ColIdx(frame, label) # {}

\* frame[label] is a Series only when exactly one column carries the label; with
\* two it is a DataFrame, which has no .str accessor and which pd.to_numeric
\* rejects.
IsSeries(frame, label) == Cardinality(ColIdx(frame, label)) = 1

TheCol(frame, label) == CHOOSE j \in DOMAIN frame.cols : frame.cols[j] = label

\* The dtype read_csv infers for a column of cells: integers when every cell is
\* a run of digits, floats when some are missing, object otherwise.
InferDtype(cells) ==
    IF \A n \in DOMAIN cells : AllDigits(cells[n]) THEN "int"
    ELSE IF \A n \in DOMAIN cells : cells[n] = <<>> \/ AllDigits(cells[n]) THEN "float"
    ELSE "object"

T_nan == <<"n","a","n">>

\* Series.astype(str) of one cell: NaN prints as "nan", a float as "<digits>.0".
AsStr(cell, dtype) ==
    IF cell = <<>> THEN T_nan
    ELSE IF dtype = "float" THEN cell \o <<".","0">>
    ELSE cell

\* ------------------------------------------------------------ source files

T_Unnamed == <<"U","n","n","a","m","e","d",":"," ">>

\* pandas names a blank header cell "Unnamed: <0-based position>".
NameBlank(header) ==
    AsTuple([j \in DOMAIN header |->
        IF header[j] = <<>> THEN T_Unnamed \o IntToDigits(j - 1) ELSE header[j]])

\* pandas renames the k-th repeat of a header label to "<label>.<k>".
MangleDupes(header) ==
    AsTuple([j \in DOMAIN header |->
        LET before == Cardinality({k \in 1..(j - 1) : header[k] = header[j]})
        IN  IF before = 0 THEN header[j]
            ELSE header[j] \o <<".">> \o IntToDigits(before)])

\* pd.read_csv(path, header=h, engine="python") on the lines of a file:
\* <<>> when it raises (the file has no line h), else <<frame>>.
MakeFrame(cols, body) ==
    [cols   |-> cols,
     dtypes |-> AsTuple([j \in DOMAIN cols |->
                    InferDtype(AsTuple([r \in DOMAIN body |-> body[r][j]]))]),
     rows   |-> body,
     Date   |-> AsTuple([r \in DOMAIN body |-> <<>>])]

read_csv(lines, h) ==
    IF Len(lines) <= h THEN <<>>
    ELSE << MakeFrame(MangleDupes(NameBlank(lines[h + 1])), SubSeq(lines, h + 2, Len(lines))) >>

\* --------------------------------------------------- column normalization

BOM == "BOM"

norm_col(val) == Strip(LStripWhile(Strip(val), {BOM}))

T_unnamed == <<"u","n","n","a","m","e","d">>

T_Date_Code == <<"D","a","t","e","_","C","o","d","e">>

T_County_Name == <<"C","o","u","n","t","y","_","N","a","m","e">>

T_County_Code == <<"C","o","u","n","t","y","_","C","o","d","e">>

T_Report_Month == <<"R","e","p","o","r","t","_","M","o","n","t","h">>

T_Month == <<"M","o","n","t","h">>

T_Year == <<"Y","e","a","r">>

T_county == <<"c","o","u","n","t","y">>

DateAliases ==
    { <<"d","a","t","e">>, <<"d","a","t","e"," ","c","o","d","e">>, Lower(T_Date_Code) }

CountyNameAliases ==
    { <<"c","o","u","n","t","y"," ","n","a","m","e">>, Lower(T_County_Name), T_county }

CountyCodeAliases ==
    { <<"c","o","u","n","t","y"," ","c","o","d","e">>, Lower(T_County_Code) }

ReportMonthAliases ==
    { <<"r","e","p","o","r","t"," ","m","o","n","t","h">>, Lower(T_Report_Month) }

\* The if/elif chain of lines 87-98 for a column col whose cleaned, lowered
\* label is low_name.
CanonicalOf(low_name, col) ==
    IF low_name \in DateAliases THEN T_Date_Code
    ELSE IF low_name \in CountyNameAliases THEN T_County_Name
    ELSE IF low_name \in CountyCodeAliases THEN T_County_Code
    ELSE IF low_name \in ReportMonthAliases THEN T_Report_Month
    ELSE IF low_name = Lower(T_Month) THEN T_Month
    ELSE IF low_name = Lower(T_Year) THEN T_Year
    ELSE col

\* The canonical name of one column label.
Canonical(col) == CanonicalOf(Lower(norm_col(col)), col)

\* The frame with only the columns for which keep holds.
KeepCols(frame, keep) ==
    [cols   |-> SelectIdx(frame.cols, keep, 1),
     dtypes |-> SelectIdx(frame.dtypes, keep, 1),
     rows   |-> AsTuple([r \in DOMAIN frame.rows |-> SelectIdx(frame.rows[r], keep, 1)]),
     Date   |-> frame.Date]

\* Lines 76-79: whether a column with this cleaned label goes to to_drop.
IsDropped(clean_name) ==
    clean_name = <<>> \/ StartsWith(Lower(clean_name), T_unnamed)

\* Lines 84-100.
RenameCols(frame) ==
    [frame EXCEPT !.cols = AsTuple([j \in DOMAIN frame.cols |-> Canonical(frame.cols[j])])]

normalize_columns(frame) ==
    RenameCols(KeepCols(frame,
        AsTuple([j \in DOMAIN frame.cols |-> ~IsDropped(norm_col(frame.cols[j]))])))

\* The header rows read_cw_csv tries, in order.
HeaderCandidates == <<4, 5, 0>>

\* Lines 135-136: <<frame>> when the normalized labels mention a county, <<>>
\* otherwise.
AcceptCounty(frame) ==
    IF Contains(JoinSpace(AsTuple([j \in DOMAIN frame.cols |-> Lower(norm_col(frame.cols[j]))])),
                T_county)
    THEN <<frame>>
    ELSE <<>>

\* Lines 133-134 on what read_csv gave (<<>> when it raised).
NormalizeRead(got) ==
    IF got = <<>> THEN <<>> ELSE AcceptCounty(normalize_columns(got[1]))

\* One attempt of read_cw_csv's loop: <<frame>> when the read succeeds and the
\* normalized labels mention a county, <<>> otherwise.
TryHeader(lines, h_idx) == NormalizeRead(read_csv(lines, h_idx))

RECURSIVE read_from(_, _)

\* Lines 136-140: return the frame of attempt k, or go on to the next header.
ReturnOrNext(got, lines, k) ==
    IF got # <<>> THEN << [frame |-> got[1], h |-> HeaderCandidates[k]] >>
    ELSE read_from(lines, k + 1)

\* read_cw_csv from the k-th header candidate on: <<>> for None, else
\* <<[frame, h]>> with h the accepted header row (logged as
\* "<name>: read with header=<h>").
read_from(lines, k) ==
    IF k > Len(HeaderCandidates) THEN <<>>
    ELSE ReturnOrNext(TryHeader(lines, HeaderCandidates[k]), lines, k)

read_cw_csv(lines) == read_from(lines, 1)

\* ------------------------------------------------------------ date parsing

(***************************************************************************)
(* A date is <<year, month, day>>; NaT is <<>>.  A strptime format is a     *)
(* sequence of directives ("%Y", "%y", "%m", "%d", "%b", "%B") and literal  *)
(* characters, matched against the whole text as pd.to_datetime does with  *)
(* format=...                                                               *)
(***************************************************************************)

NaT == <<>>

\* %b, upper-cased (the directive matches in any letter case).
MonthAbbr ==
    << <<"J","A","N">>,
       <<"F","E","B">>,
       <<"M","A","R">>,
       <<"A","P","R">>,
       <<"M","A","Y">>,
       <<"J","U","N">>,
       <<"J","U","L">>,
       <<"A","U","G">>,
       <<"S","E","P">>,
       <<"O","C","T">>,
       <<"N","O","V">>,
       <<"D","E","C">> >>

\* %B, upper-cased.
MonthFull ==
    << <<"J","A","N","U","A","R","Y">>,
       <<"F","E","B","R","U","A","R","Y">>,
       <<"M","A","R","C","H">>,
       <<"A","P","R","I","L">>,
       <<"M","A","Y">>,
       <<"J","U","N","E">>,
       <<"J","U","L","Y">>,
       <<"A","U","G","U","S","T">>,
       <<"S","E","P","T","E","M","B","E","R">>,
       <<"O","C","T","O","B","E","R">>,
       <<"N","O","V","E","M","B","E","R">>,
       <<"D","E","C","E","M","B","E","R">> >>

IsLeap(y) == (y % 4 = 0 /\ y % 100 # 0) \/ y % 400 = 0

DaysIn(y, m) ==
    IF m = 2 THEN (IF IsLeap(y) THEN 29 ELSE 28)
    ELSE IF m \in {4, 6, 9, 11} THEN 30 ELSE 31

\* The (taken, rest) splits of s in which taken is a run of n digits.
TakeDigits(s, n) ==
    IF Len(s) >= n /\ AllDigits(SubSeq(s, 1, n))
    THEN {[v |-> DigitsToInt(SubSeq(s, 1, n)), rest |-> SubSeq(s, n + 1, Len(s))]}
    ELSE {}

\* The month names of `table` that s starts with, each with the rest of s.
TakeMonth(s, table) ==
    {[v |-> k, rest |-> SubSeq(s, Len(table[k]) + 1, Len(s))] :
        k \in {k \in DOMAIN table : StartsWith(Upper(s), table[k])}}

\* Every way `fmt` matches the whole of s, as [y, m, d] (strptime's defaults
\* are 1900-01-01).
RECURSIVE Match(_, _, _)
Match(fmt, s, acc) ==
    IF fmt = <<>> THEN (IF s = <<>> THEN {acc} ELSE {})
    ELSE LET f == Head(fmt)
             more == Tail(fmt)
         IN  CASE f = "%Y" ->
                    UNION {Match(more, t.rest, [acc EXCEPT !.y = t.v]) : t \in TakeDigits(s, 4)}
               [] f = "%y" ->
                    UNION {Match(more, t.rest,
                                 [acc EXCEPT !.y = IF t.v < 69 THEN 2000 + t.v ELSE 1900 + t.v]) :
                           t \in TakeDigits(s, 2)}
               [] f = "%m" ->
                    UNION {Match(more, t.rest, [acc EXCEPT !.m = t.v]) :
                           t \in {t \in TakeDigits(s, 2) \cup TakeDigits(s, 1) : t.v \in 1..12}}
               [] f = "%d" ->
                    UNION {Match(more, t.rest, [acc EXCEPT !.d = t.v]) :
                           t \in {t \in TakeDigits(s, 2) \cup TakeDigits(s, 1) : t.v \in 1..31}}
               [] f = "%b" ->
                    UNION {Match(more, t.rest, [acc EXCEPT !.m = t.v]) : t \in TakeMonth(s, MonthAbbr)}
               [] f = "%B" ->
                    UNION {Match(more, t.rest, [acc EXCEPT !.m = t.v]) : t \in TakeMonth(s, MonthFull)}
               [] OTHER ->
                    IF s # <<>> /\ Head(s) = f THEN Match(more, Tail(s), acc) ELSE {}

DateOf(r) == <<r.y, r.m, r.d>>

\* The date of the one match, NaT when there is none.
OneOf(valid) == IF valid = {} THEN NaT ELSE DateOf(CHOOSE r \in valid : TRUE)

\* pd.to_datetime(s, format=fmt, errors="coerce") of one text.
Strptime(s, fmt) ==
    OneOf({r \in Match(fmt, s, [y |-> 1900, m |-> 1, d |-> 1]) : r.d <= DaysIn(r.y, r.m)})

\* The explicit formats of line 113, in order.
ExplicitFormats ==
    << <<"%Y", "-", "%m">>,
       <<"%Y", "-", "%m", "-", "%d">>,
       <<"%m", "/", "%Y">>,
       <<"%m", "/", "%d", "/", "%Y">>,
       <<"%b", " ", "%Y">>,
       <<"%B", " ", "%Y">> >>

\* pd.to_datetime(s, errors="coerce") with no format, the last resort of line
\* 116.  The texts that reach it in this model ("nan", words that are no date)
\* are ones the general parser rejects.
GenericParse(s) == NaT

\* a.fillna(b) of one entry
Fillna(a, b) == IF a = NaT THEN b ELSE a

RECURSIVE FillFormats(_, _, _)
FillFormats(res, s, k) ==
    IF k > Len(ExplicitFormats) THEN res
    ELSE FillFormats(Fillna(res, Strptime(s, ExplicitFormats[k])), s, k + 1)

\* str.replace(r"\.0$", "", regex=True)
DropDotZero(s) == IF EndsWith(s, <<".","0">>) THEN SubSeq(s, 1, Len(s) - 2) ELSE s

\* Lines 107-111: the entries that are numbers are read as YYYYMM.
FillNumeric(res, s) ==
    IF AllDigits(s)
    THEN Fillna(res, Strptime(IntToDigits(DigitsToInt(s)), <<"%Y", "%m">>))
    ELSE res

\* Lines 104-116 on one entry s of the cleaned series.
parse_text(s) ==
    Fillna(FillFormats(FillNumeric(Strptime(Upper(s), <<"%b", "%y">>), s), s, 1),
           GenericParse(s))

\* parse_date_series on one entry of the series (every step of it is
\* element-wise).
parse_date(cell, dtype) == parse_text(DropDotZero(Strip(AsStr(cell, dtype))))

\* parse_date_series of column j of the frame.
parse_column(frame, j) ==
    AsTuple([r \in DOMAIN frame.rows |-> parse_date(frame.rows[r][j], frame.dtypes[j])])

\* parse_date_series(frame[label]) for a label carried by one column.
parse_date_series(frame, label) == parse_column(frame, TheCol(frame, label))

\* parsed_dt.notna().any()
AnyParsed(dates) == \E r \in DOMAIN dates : dates[r] # NaT

\* Whether build_date raises: frame["Date_Code"] (or frame["Report_Month"], when it
\* is consulted) is a DataFrame, on which .str does not exist.
build_date_raises(frame) ==
    IF HasCol(frame, T_Date_Code)
    THEN \/ ~IsSeries(frame, T_Date_Code)
         \/ /\ ~AnyParsed(parse_date_series(frame, T_Date_Code))
            /\ HasCol(frame, T_Report_Month)
            /\ ~IsSeries(frame, T_Report_Month)
    ELSE HasCol(frame, T_Report_Month) /\ ~IsSeries(frame, T_Report_Month)

\* The column build_date takes the dates from: <<label>>, or <<>> when no
\* column yields a date.
date_source(frame) ==
    IF HasCol(frame, T_Date_Code) /\ AnyParsed(parse_date_series(frame, T_Date_Code))
    THEN <<T_Date_Code>>
    ELSE IF HasCol(frame, T_Report_Month) /\ AnyParsed(parse_date_series(frame, T_Report_Month))
    THEN <<T_Report_Month>>
    ELSE <<>>

\* The dates build_date returns when it takes them from src.
dates_from(frame, src) ==
    IF src # <<>> THEN parse_date_series(frame, src[1])
    ELSE AsTuple([r \in DOMAIN frame.rows |-> NaT])

\* build_date with the unparsed entries filled with the strptime default date.
build_date_filled(frame) ==
    AsTuple([r \in DOMAIN frame.rows |->
        Fillna(dates_from(frame, date_source(frame))[r], <<1900, 1, 1>>)])

\* build_date when it does not raise: one date (or NaT) per row.
build_date(frame) == dates_from(frame, date_source(frame))

\* ------------------------------------------------------------ input files

(***************************************************************************)
(* The CSV files load_all is run on.  A file is the sequence of its lines, *)
(* a line the sequence of its cells.                                       *)
(***************************************************************************)

\* Four title lines, then Date_Code / County / Cell 1 / 2; one Statewide row.
File_15_16 ==
    << << <<"R","e","p","o","r","t">>, <<>>, <<>>, <<>> >>,
       << <<"R","e","p","o","r","t">>, <<>>, <<>>, <<>> >>,
       << <<"R","e","p","o","r","t">>, <<>>, <<>>, <<>> >>,
       << <<"R","e","p","o","r","t">>, <<>>, <<>>, <<>> >>,
       << <<"D","a","t","e","_","C","o","d","e">>, <<"C","o","u","n","t","y">>, <<"C","e","l","l"," ","1">>, <<"2">> >>,
       << <<"S","E","P","2","5">>, <<"A","l","p","h","a">>, <<"1","2">>, <<"7">> >>,
       << <<"S","E","P","2","5">>, <<"S","t","a","t","e","w","i","d","e">>, <<"9","9">>, <<"9","8">> >> >>

\* Header on the first line, labels padded and BOM-prefixed; overlaps File_15_16 on (2025-09, Alpha).
File_16_17 ==
    << << <<"BOM","D","a","t","e"," ">>, <<"C","o","u","n","t","y"," ","N","a","m","e">>, <<"C","E","L","L"," ","1">>, <<" ","C","e","l","l"," ","3">> >>,
       << <<"2","0","2","5","0","9">>, <<"A","l","p","h","a">>, <<"1","3">>, <<"5">> >>,
       << <<"2","0","2","5","0","8">>, <<" ","B","e","t","a"," ">>, <<"4">>, <<>> >> >>

\* No label names a county under any header row.
File_17_18 ==
    << << <<"D","a","t","e","_","C","o","d","e">>, <<"R","e","g","i","o","n">>, <<"C","e","l","l"," ","1">>, <<"2">> >>,
       << <<"S","E","P","2","5">>, <<"A","l","p","h","a">>, <<"1">>, <<"2">> >> >>

\* A county code column but no county name column.
File_18_19 ==
    << << <<"D","a","t","e">>, <<"C","o","u","n","t","y"," ","C","o","d","e">>, <<"1">>, <<"2">> >>,
       << <<"S","E","P","2","5">>, <<"0","1">>, <<"3">>, <<"4">> >> >>

\* Five title lines; Report Month dates; county cells STATEWIDE, blank, digits only.
File_19_20 ==
    << << <<"R","e","p","o","r","t">>, <<>>, <<>>, <<>> >>,
       << <<"R","e","p","o","r","t">>, <<>>, <<>>, <<>> >>,
       << <<"R","e","p","o","r","t">>, <<>>, <<>>, <<>> >>,
       << <<"R","e","p","o","r","t">>, <<>>, <<>>, <<>> >>,
       << <<"R","e","p","o","r","t">>, <<>>, <<>>, <<>> >>,
       << <<"R","e","p","o","r","t"," ","M","o","n","t","h">>, <<"c","o","u","n","t","y">>, <<"c","e","l","l"," ","2">>, <<"O","t","h","e","r">> >>,
       << <<"2","0","2","5","-","1","0">>, <<"S","T","A","T","E","W","I","D","E">>, <<"4","0">>, <<"x">> >>,
       << <<"2","0","2","5","-","1","0">>, <<>>, <<"3">>, <<"x">> >>,
       << <<"b","a","d">>, <<"G","a","m","m","a">>, <<"9">>, <<"x">> >>,
       << <<"2","0","2","5","-","1","0">>, <<"1","2","3">>, <<"5">>, <<"x">> >> >>

\* Suppressed values: digits with the marker, the bare marker.  Cell 0 and
\* CELL 9 are outside every metric list.
File_20_21 ==
    << << <<"D","a","t","e","_","C","o","d","e">>, <<"C","o","u","n","t","y">>, <<"C","e","l","l"," ","1">>, <<"C","e","l","l"," ","0">>, <<"C","E","L","L"," ","9">> >>,
       << <<"O","C","T","2","5">>, <<"G","a","m","m","a">>, <<"1","2","*">>, <<"1">>, <<"1">> >>,
       << <<"O","C","T","2","5">>, <<"D","e","l","t","a">>, <<"*">>, <<"1">>, <<"1">> >>,
       << <<"O","C","T","2","5">>, <<"E","p","s">>, <<"6">>, <<"1">>, <<"1">> >> >>

\* Dates only as separate Month and Year columns.
File_21_22 ==
    << << <<"M","o","n","t","h">>, <<"Y","e","a","r">>, <<"C","o","u","n","t","y">>, <<"1">> >>,
       << <<"9">>, <<"2","0","2","5">>, <<"A","l","p","h","a">>, <<"5">> >> >>

\* Cell 1 and 1 both name the first metric.
File_22_23 ==
    << << <<"D","a","t","e","_","C","o","d","e">>, <<"C","o","u","n","t","y">>, <<"C","e","l","l"," ","1">>, <<"1">> >>,
       << <<"S","E","P","2","5">>, <<"A","l","p","h","a">>, <<"1">>, <<"2">> >> >>

\* No Date_Code cell parses, Report_Month does.
File_23_24 ==
    << << <<"D","a","t","e","_","C","o","d","e">>, <<"R","e","p","o","r","t","_","M","o","n","t","h">>, <<"C","o","u","n","t","y">>, <<"2">> >>,
       << <<"b","a","d">>, <<"O","C","T","2","5">>, <<"D","e","l","t","a">>, <<"8">> >>,
       << <<>>, <<"N","o","v"," ","2","0","2","5">>, <<"D","e","l","t","a">>, <<"6">> >> >>

\* One Date_Code cell parses, so Report_Month is never consulted.
File_24_25 ==
    << << <<"D","a","t","e","_","C","o","d","e">>, <<"R","e","p","o","r","t","_","M","o","n","t","h">>, <<"C","o","u","n","t","y">>, <<"C","e","l","l","1">> >>,
       << <<"S","E","P","2","5">>, <<"O","C","T","2","5">>, <<"D","e","l","t","a">>, <<"8">> >>,
       << <<"b","a","d">>, <<"O","C","T","2","5">>, <<"E","p","s">>, <<"6">> >> >>

\* A header and no data row.
File_HeaderOnly ==
    << << <<"D","a","t","e","_","C","o","d","e">>, <<"C","o","u","n","t","y">>, <<"1">>, <<"2">> >> >>

\* County and County Name both become County_Name.
File_TwoCounty ==
    << << <<"D","a","t","e">>, <<"C","o","u","n","t","y">>, <<"C","o","u","n","t","y"," ","N","a","m","e">>, <<"1">> >>,
       << <<"S","E","P","2","5">>, <<"A","l","p","h","a">>, <<"A","l","p","h","a">>, <<"2">> >> >>

\* Date and Date Code both become Date_Code.
File_TwoDate ==
    << << <<"D","a","t","e">>, <<"D","a","t","e"," ","C","o","d","e">>, <<"C","o","u","n","t","y">>, <<"1">> >>,
       << <<"S","E","P","2","5">>, <<"S","E","P","2","5">>, <<"A","l","p","h","a">>, <<"2">> >> >>

NoFile == <<>>

\* The files that may be named in the file list: what each holds in BASE_DIR
\* and in BASE_DIR/data (NoFile where it does not exist).
Disk ==
    << [base |-> NoFile,          data |-> NoFile],
       [base |-> NoFile,          data |-> File_15_16],
       [base |-> File_16_17,      data |-> File_17_18],
       [base |-> File_17_18,      data |-> NoFile],
       [base |-> File_18_19,      data |-> NoFile],
       [base |-> NoFile,          data |-> File_19_20],
       [base |-> File_20_21,      data |-> NoFile],
       [base |-> File_21_22,      data |-> NoFile],
       [base |-> File_22_23,      data |-> NoFile],
       [base |-> File_23_24,      data |-> NoFile],
       [base |-> File_24_25,      data |-> NoFile],
       [base |-> File_HeaderOnly, data |-> NoFile],
       [base |-> File_TwoCounty,  data |-> NoFile],
       [base |-> File_TwoDate,    data |-> NoFile] >>

FileNames == DOMAIN Disk

\* resolve_path: the file's lines in the first candidate directory that has
\* it, NoFile for None.
FirstFound(entry) == IF entry.base # NoFile THEN entry.base ELSE entry.data

resolve_path(fname) == FirstFound(Disk[fname])

\* What read_cw_csv returns for each file name that resolves (<<>> for None,
\* and for a name that does not resolve): lines 163 and 168, tabulated.
ReadLines(lines) == IF lines = NoFile THEN <<>> ELSE read_cw_csv(lines)

ReadOf == AsTuple([f \in FileNames |-> ReadLines(resolve_path(f))])

\* The leading words of the entries of METRICS_IN_ORDER.
METRICS_IN_ORDER ==
    << <<"A","."," ","1",".">>,
       <<"A","."," ","1","a",".">>,
       <<"A","."," ","1","b",".">>,
       <<"A","."," ","2",".">> >>

\* ------------------------------------------------------- per-file steps

\* frame.loc[keep]: the rows for which keep holds, with their dates.
KeepRows(frame, keep) ==
    [frame EXCEPT !.rows = SelectIdx(frame.rows, keep, 1),
               !.Date = SelectIdx(frame.Date, keep, 1)]

\* A cell is NaN when it is missing and its column has not been through
\* astype(str), which turns NaN into the text "nan".
IsNaN(cell, dtype) == dtype # "str" /\ cell = <<>>

T_Statewide == <<"S","t","a","t","e","w","i","d","e">>

\* has_alpha.search(x)
has_alpha(x) == \E k \in DOMAIN x : IsAlpha(x[k])

\* Line 175: column j becomes astype(str).str.strip().
StripColumn(frame, j) ==
    [frame EXCEPT !.rows = AsTuple([r \in DOMAIN frame.rows |->
                                [frame.rows[r] EXCEPT ![j] = Strip(AsStr(frame.rows[r][j], frame.dtypes[j]))]]),
                  !.dtypes[j] = "str"]

\* Line 176: .ne("Statewide") and dropna(subset=["County_Name"]) on column j.
DropStatewide(frame, j) ==
    KeepRows(frame,
        AsTuple([r \in DOMAIN frame.rows |->
            /\ frame.rows[r][j] # T_Statewide
            /\ ~IsNaN(frame.rows[r][j], frame.dtypes[j])]))

\* Line 177 on column j.
KeepAlpha(frame, j) ==
    KeepRows(frame, AsTuple([r \in DOMAIN frame.rows |-> has_alpha(frame.rows[r][j])]))

\* Lines 175-177 for a frame whose County_Name is the single column j.
filter_column(frame, j) == KeepAlpha(DropStatewide(StripColumn(frame, j), j), j)

\* Lines 175-177 for a frame whose County_Name is a single column.
filter_county(frame) == filter_column(frame, TheCol(frame, T_County_Name))

\* Timestamp.strftime("%b %Y")
strftime_b_Y(d) ==
    LET abbr == MonthAbbr[d[2]]
    IN  <<abbr[1]>> \o Lower(Tail(abbr)) \o <<" ">> \o IntToDigits(d[1])

\* Line 179.
SetDate(frame, dates) == [frame EXCEPT !.Date = dates]

\* Line 180.
DropNaT(frame) ==
    KeepRows(frame, AsTuple([r \in DOMAIN frame.rows |-> frame.Date[r] # NaT]))

\* Lines 182-183.
AddReportMonth(frame) ==
    IF HasCol(frame, T_Report_Month) THEN frame
    ELSE [frame EXCEPT !.cols = @ \o <<T_Report_Month>>,
                       !.dtypes = @ \o <<"str">>,
                       !.rows = AsTuple([r \in DOMAIN frame.rows |->
                                    frame.rows[r] \o <<strftime_b_Y(frame.Date[r])>>])]

\* Lines 179-183 for a frame on which build_date does not raise.
add_date(frame) == AddReportMonth(DropNaT(SetDate(frame, build_date(frame))))

T_cell == <<"c","e","l","l">>

\* The text the (\d+) group of line 148 has to match: what follows an
\* optional "Cell" (in any letter case) and whitespace.
AfterCell(clean_c) ==
    IF StartsWith(Lower(clean_c), T_cell)
    THEN LStripWhile(SubSeq(clean_c, Len(T_cell) + 1, Len(clean_c)), Whitespace)
    ELSE clean_c

\* int(group 1) of a match, <<>> when the digits group does not match.
DigitsGroup(rest) == IF AllDigits(rest) THEN <<DigitsToInt(rest)>> ELSE <<>>

\* re.match(r"^(?:Cell\s*)?(\d+)$", clean_c, flags=re.IGNORECASE):
\* <<int(group 1)>> on a match, <<>> otherwise.
cell_num(clean_c) == DigitsGroup(AfterCell(clean_c))

\* Lines 149-153 with the cell number used as a 0-based index.
label_for_zero_based(match, col, metrics_in_order) ==
    IF match # <<>> /\ 0 <= match[1] /\ match[1] < Len(metrics_in_order)
    THEN metrics_in_order[match[1] + 1]
    ELSE col

\* Lines 149-153 for the column col, given the match of line 148.
label_for(match, col, metrics_in_order) ==
    IF match # <<>> /\ 1 <= match[1] /\ match[1] <= Len(metrics_in_order)
    THEN metrics_in_order[match[1]]
    ELSE col

\* The label map_metric_columns gives the column labelled col.
mapped_label(col, metrics_in_order) ==
    label_for(cell_num(norm_col(col)), col, metrics_in_order)

map_metric_columns(frame, metrics_in_order) ==
    [frame EXCEPT !.cols = AsTuple([j \in DOMAIN frame.cols |-> mapped_label(frame.cols[j], metrics_in_order)])]

\* [m for m in metrics_list if m in frame.columns]
found_metrics(frame, metrics) ==
    SelectIdx(metrics, AsTuple([k \in DOMAIN metrics |-> HasCol(frame, metrics[k])]), 1)

\* pd.to_numeric(..., errors="coerce") of one cell: <<n>>, or <<>> for NaN.
\* The cells of the model are runs of digits, possibly with other characters.
to_numeric(cell) == IF AllDigits(cell) THEN <<DigitsToInt(cell)>> ELSE <<>>

\* Line 189 raises when frame[m_col] is a DataFrame: two columns carry the name.
coerce_raises(frame, metrics) ==
    \E k \in DOMAIN metrics : HasCol(frame, metrics[k]) /\ ~IsSeries(frame, metrics[k])

RECURSIVE Flatten(_)
Flatten(seqs) == IF seqs = <<>> THEN <<>> ELSE Head(seqs) \o Flatten(Tail(seqs))

\* The long rows of row r for metric m whose coerced value is v: none when
\* the value is NaN (the dropna of line 195).
long_row(frame, r, m, v) ==
    IF v = <<>> THEN <<>>
    ELSE << [Date         |-> frame.Date[r],
             Report_Month |-> frame.rows[r][TheCol(frame, T_Report_Month)],
             County_Name  |-> frame.rows[r][TheCol(frame, T_County_Name)],
             Metric       |-> m,
             Value        |-> v[1]] >>

\* pd.melt over the metrics `found`, in metric-major order.
melt_found(frame, found) ==
    Flatten(AsTuple([k \in DOMAIN found |->
        Flatten(AsTuple([r \in DOMAIN frame.rows |->
            long_row(frame, r, found[k],
                     to_numeric(frame.rows[r][TheCol(frame, found[k])]))]))]))

\* Lines 186-195: coerce the found metric columns, melt to one row per
\* (row, metric), drop the rows whose Value is NaN.
melt(frame, metrics) == melt_found(frame, found_metrics(frame, metrics))

\* ------------------------------------------------------------- assembling

DateLeq(a, b) ==
    \/ a[1] < b[1]
    \/ a[1] = b[1] /\ a[2] < b[2]
    \/ a[1] = b[1] /\ a[2] = b[2] /\ a[3] <= b[3]

\* sort_values("Date") with the default kind="quicksort", which is not a
\* stable sort: every arrangement of the rows in non-decreasing Date order is
\* a possible outcome.
RECURSIVE Arrangements(_, _)
Arrangements(rows, left) ==
    IF left = {} THEN {<<>>}
    ELSE UNION {{<<rows[x]>> \o rest : rest \in Arrangements(rows, left \ {x})} :
                x \in {x \in left : \A y \in left : DateLeq(rows[x].Date, rows[y].Date)}}

\* pd.concat alone: the rows in the order the frames were appended.
concat_unsorted(rows) == {rows}

sort_values(rows) == Arrangements(rows, DOMAIN rows)

SameKey(a, b) ==
    a.Date = b.Date /\ a.County_Name = b.County_Name /\ a.Metric = b.Metric

\* drop_duplicates(keep="first") without a subset: whole rows are compared.
drop_duplicates_by_row(rows) ==
    SelectIdx(rows, AsTuple([k \in DOMAIN rows |-> ~\E q \in 1..(k - 1) : rows[q] = rows[k]]), 1)

\* drop_duplicates(subset=["Date", "County_Name", "Metric"], keep="first")
drop_duplicates(rows) ==
    SelectIdx(rows, AsTuple([k \in DOMAIN rows |-> ~\E q \in 1..(k - 1) : SameKey(rows[q], rows[k])]), 1)

\* ---------------------------------------------------------------- load_all

VARIABLES
    files,         \* the file list load_all was called with (names on Disk)
    metrics_list,  \* list(metrics_in_order_key)
    file_no,       \* position of the for loop in files (1-based)
    pc,            \* where load_all stands: "loop", "county", "date", "map",
                   \* "melt", "done" (returned) or "raised" (left by an exception)
    df,            \* the frame of the file being processed
    logs,          \* the log lines appended so far
    frames,        \* the long frames appended so far
    result         \* the Dataset load_all returned

vars == <<files, metrics_list, file_no, pc, df, logs, frames, result>>

NoFrame == [cols |-> <<>>, dtypes |-> <<>>, rows |-> <<>>, Date |-> <<>>]

\* df.empty
IsEmpty(frame) == frame.cols = <<>> \/ frame.rows = <<>>

Init ==
    /\ files \in UNION {[1..n -> FileNames] : n \in 0..MaxFiles}
    /\ metrics_list \in {SubSeq(METRICS_IN_ORDER, 1, n) : n \in 1..MaxMetrics}
    /\ file_no = 1
    /\ pc = "loop"
    /\ df = NoFrame
    /\ logs = <<>>
    /\ frames = <<>>
    /\ result = <<>>

InLoop == pc = "loop" /\ file_no <= Len(files)

MissingLog(f) == [name |-> f, event |-> "missing", header |-> <<>>]

ReadLog(f, h) == [name |-> f, event |-> "read with header", header |-> <<h>>]

\* Lines 163-166: the file is in no candidate directory.
Missing ==
    /\ InLoop
    /\ resolve_path(files[file_no]) = NoFile
    /\ logs' = Append(logs, MissingLog(files[file_no]))
    /\ file_no' = file_no + 1
    /\ UNCHANGED <<files, metrics_list, pc, df, frames, result>>

\* Lines 168-170: read_cw_csv returns None.
Unreadable ==
    /\ InLoop
    /\ resolve_path(files[file_no]) # NoFile
    /\ ReadOf[files[file_no]] = <<>>
    /\ file_no' = file_no + 1
    /\ UNCHANGED <<files, metrics_list, pc, df, logs, frames, result>>

\* Lines 168-173: the file is read (and logged as read); the frame is empty
\* or has no County_Name column, and the loop continues.
ReadSkipped ==
    /\ InLoop
    /\ resolve_path(files[file_no]) # NoFile
    /\ ReadOf[files[file_no]] # <<>>
    /\ LET got == ReadOf[files[file_no]][1]
       IN  /\ IsEmpty(got.frame) \/ ~HasCol(got.frame, T_County_Name)
           /\ logs' = Append(logs, ReadLog(files[file_no], got.h))
           /\ df' = got.frame
    /\ file_no' = file_no + 1
    /\ UNCHANGED <<files, metrics_list, pc, frames, result>>

\* Lines 168-173: the file is read and goes on to the county filter.
Read ==
    /\ InLoop
    /\ resolve_path(files[file_no]) # NoFile
    /\ ReadOf[files[file_no]] # <<>>
    /\ LET got == ReadOf[files[file_no]][1]
       IN  /\ ~IsEmpty(got.frame)
           /\ HasCol(got.frame, T_County_Name)
           /\ logs' = Append(logs, ReadLog(files[file_no], got.h))
           /\ df' = got.frame
    /\ pc' = "county"
    /\ UNCHANGED <<files, metrics_list, file_no, frames, result>>

\* Lines 175-177.
FilterCounty ==
    /\ pc = "county"
    /\ IsSeries(df, T_County_Name)
    /\ df' = filter_county(df)
    /\ pc' = "date"
    /\ UNCHANGED <<files, metrics_list, file_no, logs, frames, result>>

\* Line 175 on a frame with two County_Name columns: AttributeError, which
\* nothing in load_all catches.
FilterCountyRaises ==
    /\ pc = "county"
    /\ ~IsSeries(df, T_County_Name)
    /\ pc' = "raised"
    /\ UNCHANGED <<files, metrics_list, file_no, df, logs, frames, result>>

\* Lines 179-183.
AddDate ==
    /\ pc = "date"
    /\ ~build_date_raises(df)
    /\ df' = add_date(df)
    /\ pc' = "map"
    /\ UNCHANGED <<files, metrics_list, file_no, logs, frames, result>>

\* Line 179 when build_date raises.
AddDateRaises ==
    /\ pc = "date"
    /\ build_date_raises(df)
    /\ pc' = "raised"
    /\ UNCHANGED <<files, metrics_list, file_no, df, logs, frames, result>>

\* Line 185.
MapColumns ==
    /\ pc = "map"
    /\ df' = map_metric_columns(df, metrics_list)
    /\ pc' = "melt"
    /\ UNCHANGED <<files, metrics_list, file_no, logs, frames, result>>

\* Lines 186-197.
Melt ==
    /\ pc = "melt"
    /\ ~coerce_raises(df, metrics_list)
    /\ frames' = Append(frames, melt(df, metrics_list))
    /\ file_no' = file_no + 1
    /\ pc' = "loop"
    /\ UNCHANGED <<files, metrics_list, df, logs, result>>

\* Line 189 when pd.to_numeric raises.
CoerceRaises ==
    /\ pc = "melt"
    /\ coerce_raises(df, metrics_list)
    /\ pc' = "raised"
    /\ UNCHANGED <<files, metrics_list, file_no, df, logs, frames, result>>

\* Lines 199-200.
ReturnEmpty ==
    /\ pc = "loop"
    /\ file_no > Len(files)
    /\ frames = <<>>
    /\ result' = <<>>
    /\ pc' = "done"
    /\ UNCHANGED <<files, metrics_list, file_no, df, logs, frames>>

\* Lines 202-203.
Assemble ==
    /\ pc = "loop"
    /\ file_no > Len(files)
    /\ frames # <<>>
    /\ \E all_data \in sort_values(Flatten(frames)) :
          result' = drop_duplicates(all_data)
    /\ pc' = "done"
    /\ UNCHANGED <<files, metrics_list, file_no, df, logs, frames>>

Next ==
    \/ Missing
    \/ Unreadable
    \/ ReadSkipped
    \/ Read
    \/ FilterCounty
    \/ FilterCountyRaises
    \/ AddDate
    \/ AddDateRaises
    \/ MapColumns
    \/ Melt
    \/ CoerceRaises
    \/ ReturnEmpty
    \/ Assemble

Spec == Init /\ [][Next]_vars

\* ------------------------------------------------------------- properties

Rows(seq) == {seq[k] : k \in DOMAIN seq}

\* The frame read_cw_csv returns for the f-th file of the list.
FrameOf(f) == ReadOf[files[f]][1].frame

\* Whether the f-th file of the list is read (by name and by content).
IsRead(f) == ReadOf[files[f]] # <<>>

\* C1: the Dataset load_all returns holds at most one row for each
\* (Date, County_Name, Metric) triple, whatever rows the files share.
C1_DedupInvariant ==
    pc = "done" =>
        \A a, b \in DOMAIN result : SameKey(result[a], result[b]) => a = b

\* Two files contributed rows with one key, and load_all returned.
C1_Witness ==
    /\ pc = "done"
    /\ result # <<>>
    /\ \E a, b \in DOMAIN frames :
          /\ a < b
          /\ \E x \in Rows(frames[a]), y \in Rows(frames[b]) : SameKey(x, y)

\* The first frame, in file-list order, that holds a row with the key of w.
FirstFrameWith(w) ==
    CHOOSE a \in DOMAIN frames :
        /\ \E x \in Rows(frames[a]) : SameKey(x, w)
        /\ \A b \in 1..(a - 1) : \A y \in Rows(frames[b]) : ~SameKey(y, w)

\* C2: when two files contribute a row with the same key and different
\* Values, the row load_all keeps is the one of the file that comes earlier in
\* the file list.
C2_EarlierFileWins ==
    pc = "done" =>
        \A k \in DOMAIN result :
            \E x \in Rows(frames[FirstFrameWith(result[k])]) :
                SameKey(x, result[k]) /\ x.Value = result[k].Value

\* C3: no row of the final Dataset has a county label that, trimmed, is
\* empty, is Statewide in any letter case, or has no alphabetic character.
C3_CountyFilter ==
    pc = "done" =>
        \A k \in DOMAIN result :
            /\ Strip(result[k].County_Name) # <<>>
            /\ Lower(Strip(result[k].County_Name)) # Lower(T_Statewide)
            /\ has_alpha(result[k].County_Name)

\* The first-of-month date of a Month cell and a Year cell.
FirstOfMonth(month, year) ==
    IF AllDigits(month) /\ AllDigits(year) /\ DigitsToInt(month) \in 1..12
    THEN <<DigitsToInt(year), DigitsToInt(month), 1>>
    ELSE NaT

\* One date per row from the first source under which a row parses, in the
\* order Date_Code, Report_Month, Month with Year.
DatesByPriority(frame) ==
    IF HasCol(frame, T_Date_Code) /\ AnyParsed(parse_date_series(frame, T_Date_Code))
    THEN parse_date_series(frame, T_Date_Code)
    ELSE IF HasCol(frame, T_Report_Month) /\ AnyParsed(parse_date_series(frame, T_Report_Month))
    THEN parse_date_series(frame, T_Report_Month)
    ELSE IF HasCol(frame, T_Month) /\ HasCol(frame, T_Year)
    THEN AsTuple([r \in DOMAIN frame.rows |->
            FirstOfMonth(frame.rows[r][TheCol(frame, T_Month)],
                         frame.rows[r][TheCol(frame, T_Year)])])
    ELSE AsTuple([r \in DOMAIN frame.rows |-> NaT])

\* C4: build_date takes the dates from Date_Code, else Report_Month, else
\* Month with Year, a source being used only if a row parses under it; a
\* table with only Month and Year gets a first-of-month date per row.
C4_DatePriority ==
    [][(pc = "date" /\ pc' = "map") =>
          df'.Date = SelectIdx(DatesByPriority(df),
                               AsTuple([r \in DOMAIN df.rows |-> DatesByPriority(df)[r] # NaT]), 1)]_vars

\* w carries a date parsed from a Date_Code or Report_Month cell of a row of
\* the frame with the county of w.
ParsedFrom(w, frame) ==
    /\ IsSeries(frame, T_County_Name)
    /\ \E label \in {T_Date_Code, T_Report_Month} :
          /\ IsSeries(frame, label)
          /\ \E r \in DOMAIN frame.rows :
                /\ w.Date = parse_date(frame.rows[r][TheCol(frame, label)],
                                       frame.dtypes[TheCol(frame, label)])
                /\ w.County_Name = Strip(AsStr(frame.rows[r][TheCol(frame, T_County_Name)],
                                               frame.dtypes[TheCol(frame, T_County_Name)]))

\* C5: every row of the final Dataset has a non-null Date parsed from a
\* Date_Code or Report_Month cell of its file; a row whose date does not
\* parse is dropped from the file's frame and never given a default date.
C5_NoDefaultDate ==
    /\ pc \in {"map", "melt"} => \A r \in DOMAIN df.Date : df.Date[r] # NaT
    /\ pc = "done" =>
          \A k \in DOMAIN result :
              /\ result[k].Date # NaT
              /\ \E f \in DOMAIN files : IsRead(f) /\ ParsedFrom(result[k], FrameOf(f))

\* load_all returned rows of a file in which one row's date parsed and
\* another row's date did not.
C5_Witness ==
    /\ pc = "done"
    /\ \E f \in DOMAIN files :
          /\ IsRead(f)
          /\ IsSeries(FrameOf(f), T_County_Name)
          /\ \E label \in {T_Date_Code, T_Report_Month} :
                /\ date_source(filter_county(FrameOf(f))) = <<label>>
                /\ \E r \in DOMAIN filter_county(FrameOf(f)).rows :
                      parse_date_series(filter_county(FrameOf(f)), label)[r] = NaT
          /\ \E k \in DOMAIN result : ParsedFrom(result[k], FrameOf(f))

\* The cleaned labels that name cell k.
CellLabels(k) ==
    { <<"C","e","l","l"," ">> \o IntToDigits(k),
      <<"C","E","L","L"," ">> \o IntToDigits(k),
      IntToDigits(k) }

\* The largest cell number of a column label of the input files.
MaxCell == 9

\* C6: map_metric_columns renames a column labelled Cell k, CELL k or k with
\* 1 <= k <= L to the k-th metric; a column with cell number 0 or above L, and
\* a column whose label is no cell label, keeps its label; none is dropped.
C6_CellMapping ==
    [][(pc = "map" /\ pc' = "melt") =>
          /\ DOMAIN df'.cols = DOMAIN df.cols
          /\ df'.rows = df.rows
          /\ \A j \in DOMAIN df.cols :
                /\ \A k \in 1..Len(metrics_list) :
                      norm_col(df.cols[j]) \in CellLabels(k) => df'.cols[j] = metrics_list[k]
                /\ \A k \in {0} \cup ((Len(metrics_list) + 1)..MaxCell) :
                      norm_col(df.cols[j]) \in CellLabels(k) => df'.cols[j] = df.cols[j]
                /\ (norm_col(df.cols[j]) = <<>> \/ ~IsDigit(norm_col(df.cols[j])[Len(norm_col(df.cols[j]))]))
                      => df'.cols[j] = df.cols[j]]_vars

\* map_metric_columns has renamed a column and has kept a column of cell 0, a
\* column of a cell above L and a column that names no cell.
C6_Witness ==
    /\ pc = "melt"
    /\ \E j \in DOMAIN df.cols : df.cols[j] = metrics_list[1]
    /\ \E j \in DOMAIN df.cols : norm_col(df.cols[j]) \in CellLabels(0)
    /\ \E j \in DOMAIN df.cols : norm_col(df.cols[j]) \in CellLabels(MaxCell)
    /\ \E j \in DOMAIN df.cols : df.cols[j] = T_County_Name

\* The cell without the de-identification marker.
StripMarker(cell) ==
    SelectIdx(cell, AsTuple([k \in DOMAIN cell |-> cell[k] # "*"]), 1)

\* C7: in every found metric column the marker * is stripped before the
\* coercion: a cell of digits and the marker yields the number of its digits,
\* a cell that still fails the coercion yields no row.
C7_MarkerStripped ==
    [][(pc = "melt" /\ pc' = "loop") =>
          \A m \in Rows(found_metrics(df, metrics_list)) :
              \A r \in DOMAIN df.rows :
                  LET cell  == StripMarker(df.rows[r][TheCol(df, m)])
                      mine  == {w \in Rows(frames'[Len(frames')]) :
                                   /\ w.Metric = m
                                   /\ w.Date = df.Date[r]
                                   /\ w.County_Name = df.rows[r][TheCol(df, T_County_Name)]}
                  IN  IF AllDigits(cell)
                      THEN \E w \in mine : w.Value = DigitsToInt(cell)
                      ELSE mine = {}]_vars

\* C8: no outcome of processing one file aborts load_all: it is never left
\* by an exception of a per-file step, so the files after it are still
\* processed and a (Dataset, logs) pair is returned.
C8_NoAbort == pc # "raised"

\* C9: every file of the list that contributes nothing because it is missing
\* or because no header row yields a county column has a log line naming it.
C9_SkipLogged ==
    pc = "done" =>
        \A f \in DOMAIN files :
            ~IsRead(f) => \E k \in DOMAIN logs : logs[k].name = files[f]

\* C10: the Dataset load_all returns is sorted non-decreasing by Date, the
\* dropping of duplicates included.
C10_DateMonotone ==
    pc = "done" =>
        \A k \in 1..(Len(result) - 1) : DateLeq(result[k].Date, result[k + 1].Date)

\* load_all returned rows of several dates from frames that, concatenated,
\* were not in date order and held a duplicate.
C10_Witness ==
    /\ pc = "done"
    /\ \E a, b \in DOMAIN result : result[a].Date # result[b].Date
    /\ \E a, b \in DOMAIN Flatten(frames) :
          a < b /\ ~DateLeq(Flatten(frames)[a].Date, Flatten(frames)[b].Date)
    /\ Len(result) < Len(Flatten(frames))

====
